---- MODULE Spec2Model ----
(***************************************************************************)
(* A model of va, the "go run" launcher: the alias registry (fsToLinks,    *)
(* lineToLink, validateShort, validateMod), the alias lookup of main, the  *)
(* module path resolver (Download, pathTrim), Build, and the run/exit      *)
(* epilogue of main.                                                       *)
(*                                                                         *)
(* A Go string is a sequence of one-character strings: "a.a@v" is          *)
(* <<"a", ".", "a", "@", "v">>.                                            *)
(***************************************************************************)
EXTENDS Integers, Sequences, FiniteSets, TLC

VARIABLES
    files,      \* the embedded lists/*.list files in walk order: [name, lines]
    fi,         \* fsToLinks: index of the file the walker is in
    li,         \* fsToLinks: index of the next line the scanner returns
    links,      \* fsToLinks: the map of links built so far
    loadErr,    \* fsToLinks: the error returned ("" is nil)
    args,       \* os.Args[1:], without the arguments passed through
    mod,        \* main: the module coordinate after the alias lookup
    pc,         \* main: the position in the program
    path,       \* Download: the path probed next
    version,    \* Download: the version
    tail,       \* Download: the tail
    probes,     \* Download: the "go mod download" commands run so far
    probeOK,    \* the environment: the paths at which "go mod download" succeeds
    dlErr,      \* Download: the error returned (NoErr is nil)
    dir,        \* Download: the directory returned
    tmp,        \* the temporary build artifact: "none", "created", "removed"
    ran,        \* cmd.Run: "none" before it, "nostart" or "exited" after it
    childExit,  \* the exit code of the invoked program once ran = "exited"
    exitCode    \* the exit status of the launcher once pc = "exit"

vars == <<files, fi, li, links, loadErr, args, mod, pc, path, version, tail,
          probes, probeOK, dlErr, dir, tmp, ran, childExit, exitCode>>

loadVars == <<files, fi, li, links, loadErr>>
dlVars == <<path, version, tail, probes, probeOK, dlErr, dir>>
runVars == <<tmp, ran, childExit>>

(***************************************************************************)
(* Bounds of the model.                                                    *)
(***************************************************************************)
MaxDepth == 4       \* segments of a module path given to the resolver
MaxExit == 2        \* the largest exit code of the invoked program
MaxLines == 2       \* lines of one alias list
MaxShortLen == 3    \* characters of a short name (line-level checks)
MaxModLen == 6      \* characters of a coordinate (coordinate-level checks)

(***************************************************************************)
(* strings                                                                 *)
(***************************************************************************)
Letters == {"a", "b", "c", "d", "e", "v", "w", "x", "y"}

\* the positions of sep in s
SepIdx(s, sep) == {i \in 1..Len(s) : s[i] = sep}

\* the position of the k-th sep of s; 0 before the first, Len(s)+1 after the last
SepPos(s, sep, k) ==
    IF k = 0 THEN 0
    ELSE IF k > Cardinality(SepIdx(s, sep)) THEN Len(s) + 1
    ELSE CHOOSE i \in SepIdx(s, sep) :
            Cardinality({j \in SepIdx(s, sep) : j <= i}) = k

RECURSIVE Split(_, _)
\* strings.Split(s, sep) for a one-character sep
Split(s, sep) ==
    IF SepIdx(s, sep) = {} THEN <<s>>
    ELSE <<SubSeq(s, 1, SepPos(s, sep, 1) - 1)>>
            \o Split(SubSeq(s, SepPos(s, sep, 1) + 1, Len(s)), sep)

RECURSIVE Join(_, _)
\* strings.Join(parts, sep)
Join(parts, sep) ==
    IF parts = <<>> THEN <<>>
    ELSE IF Len(parts) = 1 THEN parts[1]
    ELSE parts[1] \o <<sep>> \o Join(Tail(parts), sep)

\* strings.HasPrefix(s, "#")
HasPrefix(s, c) == Len(s) >= 1 /\ s[1] = c

\* the index of the last "/" of p, 0 when there is none
LastSlash(p) ==
    IF SepIdx(p, "/") = {} THEN 0
    ELSE CHOOSE i \in SepIdx(p, "/") : \A j \in SepIdx(p, "/") : j <= i

RECURSIVE CleanStack(_, _, _)
\* path.Clean's pass over the elements: drops empty and "." elements, and
\* lets ".." remove the element before it
CleanStack(elems, stack, rooted) ==
    IF elems = <<>> THEN stack
    ELSE LET e == Head(elems)
             rest == Tail(elems)
         IN  IF e = <<>> \/ e = <<".">> THEN CleanStack(rest, stack, rooted)
             ELSE IF e = <<".", ".">> THEN
                 IF stack # <<>> /\ stack[Len(stack)] # <<".", ".">>
                 THEN CleanStack(rest, SubSeq(stack, 1, Len(stack) - 1), rooted)
                 ELSE IF rooted THEN CleanStack(rest, stack, rooted)
                 ELSE CleanStack(rest, Append(stack, e), rooted)
             ELSE CleanStack(rest, Append(stack, e), rooted)

\* path.Clean(p)
PathClean(p) ==
    IF p = <<>> THEN <<".">>
    ELSE LET rooted == p[1] = "/"
             body == Join(CleanStack(Split(p, "/"), <<>>, rooted), "/")
             out == (IF rooted THEN <<"/">> ELSE <<>>) \o body
         IN  IF out = <<>> THEN <<".">> ELSE out

\* path.Dir(p)
PathDir(p) == PathClean(SubSeq(p, 1, LastSlash(p)))

RECURSIVE StripSlashes(_)
StripSlashes(p) ==
    IF p # <<>> /\ p[Len(p)] = "/" THEN StripSlashes(SubSeq(p, 1, Len(p) - 1))
    ELSE p

\* path.Base(p)
PathBase(p) ==
    IF p = <<>> THEN <<".">>
    ELSE LET q == StripSlashes(p)
             b == SubSeq(q, LastSlash(q) + 1, Len(q))
         IN  IF b = <<>> THEN <<"/">> ELSE b

\* path.Join(a, b)
PathJoin(a, b) ==
    IF a = <<>> /\ b = <<>> THEN <<>>
    ELSE IF a = <<>> THEN PathClean(b)
    ELSE PathClean(a \o <<"/">> \o b)

\* strings.HasSuffix(s, suf)
HasSuffix(s, suf) ==
    Len(s) >= Len(suf) /\ SubSeq(s, Len(s) - Len(suf) + 1, Len(s)) = suf

\* strings.TrimPrefix(s, pre)
TrimPrefix(s, pre) ==
    IF Len(s) >= Len(pre) /\ SubSeq(s, 1, Len(pre)) = pre
    THEN SubSeq(s, Len(pre) + 1, Len(s)) ELSE s

\* strings.TrimSuffix(s, suf)
TrimSuffix(s, suf) ==
    IF HasSuffix(s, suf) THEN SubSeq(s, 1, Len(s) - Len(suf)) ELSE s

\* the characters of s
Chars(s) == {s[i] : i \in 1..Len(s)}

(***************************************************************************)
(* validation                                                              *)
(*                                                                         *)
(* The alphabet of the model has lower-case letters and punctuation only:  *)
(* no digits, no upper-case letters, no "~".  Hence module.CheckPath's     *)
(* rules on major-version suffixes ("/v2"), on Windows short names and on  *)
(* reserved Windows file names never apply, and are not modelled.          *)
(***************************************************************************)
\* [0-9A-Za-z] of reShort
Alnum(c) == c \in Letters

\* [0-9A-Za-z_-] of reShort
ShortClass(c) == Alnum(c) \/ c \in {"_", "-"}

\* the first alternative of reShort, anchored at the start only:
\* ^([0-9A-Za-z]+[0-9A-Za-z_-]*[0-9A-Za-z]+) matches a prefix of s
reShortPrefix(s) ==
    \E k \in 2..Len(s) :
        /\ Alnum(s[1])
        /\ Alnum(s[k])
        /\ \A j \in 1..k : ShortClass(s[j])

\* the second alternative of reShort, anchored at the end only:
\* ([0-9A-Za-z]+)$ matches a suffix of s
reShortSuffix(s) == Len(s) >= 1 /\ Alnum(s[Len(s)])

\* reShort.MatchString(short): "^(A)|(B)$" is "(^A)|(B$)"
validateShort(short) == reShortPrefix(short) \/ reShortSuffix(short)

\* module.modPathOK
modPathOK(c) == c \in Letters \cup {"-", ".", "_"}

\* module.firstPathOK
firstPathOK(c) == c \in Letters \cup {"-", "."}

\* module.checkElem(elem, modulePath)
checkElem(elem) ==
    /\ elem # <<>>
    /\ Chars(elem) # {"."}
    /\ elem[1] # "."
    /\ elem[Len(elem)] # "."
    /\ \A c \in Chars(elem) : modPathOK(c)

\* module.checkPath(path, modulePath)
checkPath(p) ==
    /\ p # <<>>
    /\ p[1] # "-"
    /\ ~ \E i \in 1..(Len(p) - 1) : p[i] = "/" /\ p[i + 1] = "/"
    /\ p[Len(p)] # "/"
    /\ \A k \in DOMAIN Split(p, "/") : checkElem(Split(p, "/")[k])

\* module.CheckPath(path) = nil
CheckPath(p) ==
    /\ checkPath(p)
    /\ LET first == Split(p, "/")[1]
       IN  /\ first # <<>>
           /\ "." \in Chars(first)
           /\ p[1] # "-"
           /\ \A c \in Chars(first) : firstPathOK(c)

\* validateMod(mod)
validateMod(m) ==
    LET split == Split(m, "@")
    IN  IF Len(split) # 2 THEN FALSE
        ELSE IF ~CheckPath(split[1]) THEN FALSE
        ELSE TRUE

(***************************************************************************)
(* the alias registry                                                      *)
(***************************************************************************)
\* Link{}
EmptyLink == [Short |-> <<>>, Pkg |-> <<>>, Desc |-> <<>>]

\* lineToLink(line): the Link and the error ("" is nil)
lineToLink(line) ==
    IF HasPrefix(line, "#") THEN [link |-> EmptyLink, err |-> ""]
    ELSE LET split == Split(line, " ")
         IN  IF Len(split) < 2 THEN [link |-> EmptyLink, err |-> "bad line"]
             ELSE LET short == split[1]
                      pkg == split[2]
                      desc == Join(SubSeq(split, 3, Len(split)), " ")
                  IN  IF ~validateShort(short) \/ ~validateMod(pkg)
                      THEN [link |-> EmptyLink, err |-> "bad module"]
                      ELSE [link |-> [Short |-> short, Pkg |-> pkg, Desc |-> desc],
                            err |-> ""]

ListsDir == <<"l", "i", "s", "t", "s", "/">>
DotList == <<".", "l", "i", "s", "t">>

\* fsWalker: the prefix of the links of the file at path p
Prefix(p) ==
    LET name == TrimSuffix(TrimPrefix(p, ListsDir), DotList)
    IN  IF name = <<"_">> THEN <<>> ELSE name \o <<"/">>

\* a scanner loop that does not look for the link in the map
scanBodyOverwrite(lnks, p, line) ==
    LET r == lineToLink(line)
        short == Prefix(p) \o r.link.Short
    IN  IF r.err # "" THEN [links |-> lnks, err |-> r.err, next |-> "return"]
        ELSE IF r.link = EmptyLink
        THEN [links |-> lnks, err |-> "", next |-> "continue"]
        ELSE [links |-> (short :> [r.link EXCEPT !.Short = short]) @@ lnks,
              err |-> "", next |-> "continue"]

\* a scanner loop that returns from the walker at the first empty link
scanBodyReturn(lnks, p, line) ==
    LET r == lineToLink(line)
        short == Prefix(p) \o r.link.Short
    IN  IF r.err # "" THEN [links |-> lnks, err |-> r.err, next |-> "return"]
        ELSE IF r.link = EmptyLink
        THEN [links |-> lnks, err |-> "", next |-> "return"]
        ELSE IF short \in DOMAIN lnks
        THEN [links |-> lnks, err |-> "exists", next |-> "return"]
        ELSE [links |-> (short :> [r.link EXCEPT !.Short = short]) @@ lnks,
              err |-> "", next |-> "continue"]

\* fsWalker: one pass of the scanner loop over a line of the file at path p,
\* with lnks the map so far.  next says how the loop goes on: "continue"
\* with the next line, or "return" from the walker with err.
scanBody(lnks, p, line) ==
    LET r == lineToLink(line)
        short == Prefix(p) \o r.link.Short
    IN  IF r.err # "" THEN [links |-> lnks, err |-> r.err, next |-> "return"]
        ELSE IF r.link = EmptyLink
        THEN [links |-> lnks, err |-> "", next |-> "continue"]
        ELSE IF short \in DOMAIN lnks
        THEN [links |-> lnks, err |-> "exists", next |-> "return"]
        ELSE [links |-> (short :> [r.link EXCEPT !.Short = short]) @@ lnks,
              err |-> "", next |-> "continue"]

\* the walker is in a file
InFile == pc = "load" /\ loadErr = "" /\ fi <= Len(files)

\* fsWalker: the scanner returns the next line of a ".list" file
ScanLine ==
    /\ InFile
    /\ HasSuffix(files[fi].path, DotList)
    /\ li <= Len(files[fi].lines)
    /\ LET r == scanBody(links, files[fi].path, files[fi].lines[li])
       IN  /\ links' = r.links
           /\ loadErr' = r.err
           /\ IF r.next = "continue" THEN fi' = fi /\ li' = li + 1
              ELSE IF r.err = "" THEN fi' = fi + 1 /\ li' = 1
              ELSE fi' = fi /\ li' = li
    /\ UNCHANGED <<files, args, mod, pc, dlVars, runVars, exitCode>>

\* fsWalker returns nil: the file has no ".list" suffix, or the scanner is at
\* the end of the file
EndFile ==
    /\ InFile
    /\ ~HasSuffix(files[fi].path, DotList) \/ li > Len(files[fi].lines)
    /\ fi' = fi + 1
    /\ li' = 1
    /\ UNCHANGED <<files, links, loadErr, args, mod, pc, dlVars, runVars, exitCode>>

\* fsToLinks alone
NextLoad == ScanLine \/ EndFile

(***************************************************************************)
(* main, up to the download                                                *)
(***************************************************************************)
\* main: fsToLinks returned an error; os.Exit(1)
LoadFailed ==
    /\ pc = "load"
    /\ loadErr # ""
    /\ pc' = "exit"
    /\ exitCode' = 1
    /\ UNCHANGED <<loadVars, args, mod, dlVars, runVars>>

\* main: fsToLinks returned the links
LoadDone ==
    /\ pc = "load"
    /\ loadErr = ""
    /\ fi > Len(files)
    /\ pc' = "args"
    /\ UNCHANGED <<loadVars, args, mod, dlVars, runVars, exitCode>>

\* main: no path is provided; the registered links are printed; os.Exit(1)
Usage ==
    /\ pc = "args"
    /\ Len(args) < 1
    /\ pc' = "exit"
    /\ exitCode' = 1
    /\ UNCHANGED <<loadVars, args, mod, dlVars, runVars>>

\* a lookup in which the version of the link always wins
LookupModLinkVersion(lnks, token) ==
    LET modPath == Split(token, "@")
    IN  IF modPath[1] \in DOMAIN lnks
        THEN lnks[modPath[1]].Pkg
        ELSE Join(modPath, "@")

\* main: the lookup of os.Args[1] in the links, and the substitution
LookupMod(lnks, token) ==
    LET modPath == Split(token, "@")
    IN  IF modPath[1] \in DOMAIN lnks
        THEN LET modLink == Split(lnks[modPath[1]].Pkg, "@")
                 replaced == [modPath EXCEPT ![1] = modLink[1]]
             IN  IF Len(modPath) = 1
                 THEN Join(Append(replaced, modLink[2]), "@")
                 ELSE Join(replaced, "@")
        ELSE Join(modPath, "@")

\* main: mod is looked up
Lookup ==
    /\ pc = "args"
    /\ Len(args) >= 1
    /\ mod' = LookupMod(links, args[1])
    /\ pc' = "validate"
    /\ UNCHANGED <<loadVars, args, dlVars, runVars, exitCode>>

\* the number of "/"-separated segments of p
Depth(p) == Len(Split(p, "/"))

\* the whole-segment prefixes of p, p included
Ancestors(p) ==
    {Join(SubSeq(Split(p, "/"), 1, k), "/") : k \in 1..Depth(p)}

\* main: mod is validated; os.Exit(1) when it is not valid, Download(mod) is
\* called when it is.  The module proxy of this run is chosen here: the
\* ancestors of the path at which "go mod download" succeeds.
Validate ==
    /\ pc = "validate"
    /\ IF ~validateMod(mod)
       THEN /\ pc' = "exit"
            /\ exitCode' = 1
            /\ UNCHANGED probeOK
       ELSE /\ pc' = "download"
            /\ probeOK' \in SUBSET Ancestors(Split(mod, "@")[1])
            /\ UNCHANGED exitCode
    /\ UNCHANGED <<loadVars, args, mod, path, version, tail, probes, dlErr, dir,
                   runVars>>

(***************************************************************************)
(* Download                                                                *)
(***************************************************************************)
\* nil
NoErr == [msg |-> "", wraps |-> <<>>]

\* the error of the command "go mod download -json pathVersion"
ProbeErr(pathVersion) == pathVersion

\* pathTrim that forgets path.Dir: the path is never shortened
pathTrimNoDir(curPath, curTail) ==
    [path |-> PathClean(curPath),
     tail |-> PathJoin(PathBase(curPath), curTail)]

\* pathTrim that appends the segment to the tail instead of prepending it
pathTrimAppend(curPath, curTail) ==
    [path |-> PathClean(PathDir(curPath)),
     tail |-> PathJoin(curTail, PathBase(curPath))]

\* pathTrim that forgets the tail so far
pathTrimDropTail(curPath, curTail) ==
    [path |-> PathClean(PathDir(curPath)),
     tail |-> PathBase(curPath)]

\* pathTrim(curPath, curTail)
pathTrim(curPath, curTail) ==
    [path |-> PathClean(PathDir(curPath)),
     tail |-> PathJoin(PathBase(curPath), curTail)]

\* modinfo.Dir: where the module cache (here "/") unpacks path@version
ModInfoDir(p, v) == <<"/">> \o p \o <<"@">> \o v

\* Download: mod is split into the path and the version
DownloadStart ==
    /\ pc = "download"
    /\ LET split == Split(mod, "@")
       IN  IF Len(split) # 2
           THEN /\ dlErr' = [msg |-> "not a module", wraps |-> <<>>]
                /\ pc' = "exit"
                /\ exitCode' = 1
                /\ UNCHANGED <<path, version, tail>>
           ELSE /\ path' = split[1]
                /\ version' = split[2]
                /\ tail' = <<>>
                /\ pc' = "probe"
                /\ UNCHANGED <<dlErr, exitCode>>
    /\ UNCHANGED <<loadVars, args, mod, probes, probeOK, dir, runVars>>

\* Download: "go mod download" fails at path; the path is trimmed, and the
\* loop goes on unless the root is reached
ProbeFail ==
    /\ pc = "probe"
    /\ path \notin probeOK
    /\ probes' = probes + 1
    /\ LET t == pathTrim(path, tail)
       IN  /\ path' = t.path
           /\ tail' = t.tail
           /\ IF t.path = <<".">>
              THEN /\ dlErr' = [msg |-> "mod-download",
                                wraps |-> ProbeErr(path \o <<"@">> \o version)]
                   /\ pc' = "exit"
                   /\ exitCode' = 1
              ELSE UNCHANGED <<dlErr, pc, exitCode>>
    /\ UNCHANGED <<loadVars, args, mod, version, probeOK, dir, runVars>>

\* Download: "go mod download" succeeds at path; its output is parsed and
\* the directory of the tool is returned
ProbeFound ==
    /\ pc = "probe"
    /\ path \in probeOK
    /\ probes' = probes + 1
    /\ \E jsonOK \in BOOLEAN :
        IF jsonOK
        THEN /\ dir' = PathJoin(ModInfoDir(path, version), tail)
             /\ pc' = "build"
             /\ UNCHANGED <<dlErr, exitCode>>
        ELSE /\ dlErr' = [msg |-> "json", wraps |-> <<>>]
             /\ pc' = "exit"
             /\ exitCode' = 1
             /\ UNCHANGED dir
    /\ UNCHANGED <<loadVars, args, mod, path, version, tail, probeOK, runVars>>

(***************************************************************************)
(* Build and run                                                           *)
(***************************************************************************)
\* what the operating system and "go build" do to Build
BuildOutcomes == {"createfail", "closefail", "buildfail", "ok"}

\* Build(toolDir), and main exiting when it fails
Build ==
    /\ pc = "build"
    /\ \E outcome \in BuildOutcomes :
        /\ tmp' = CASE outcome = "createfail" -> "none"
                    [] outcome = "closefail" -> "created"
                    [] outcome = "buildfail" -> "removed"
                    [] outcome = "ok" -> "created"
        /\ IF outcome = "ok"
           THEN pc' = "run" /\ UNCHANGED exitCode
           ELSE pc' = "exit" /\ exitCode' = 1
    /\ UNCHANGED <<loadVars, args, mod, dlVars, ran, childExit>>

\* the exit codes of the invoked program
ChildCodes == 0..MaxExit

\* cmd.ProcessState.ExitCode()
ProcessStateExitCode(started, code) == IF started THEN code ELSE -1

\* the exit status the operating system keeps of os.Exit(n)
ExitStatus(n) == n % 256

\* main when cmd.Run() returned err; isExitError is the type assertion
\* err.(*exec.ExitError).  The result says whether main calls os.Exit, and
\* with what.
runEpilogue(failed, isExitError, started, code) ==
    IF failed /\ ~isExitError
    THEN [exits |-> TRUE, code |-> ExitStatus(ProcessStateExitCode(started, code))]
    ELSE [exits |-> FALSE, code |-> 0]

\* main: the binary is run; os.Exit skips the deferred os.Remove(tool),
\* returning from main runs it
Run ==
    /\ pc = "run"
    /\ \E started \in BOOLEAN, code \in ChildCodes :
        /\ ~started => code = 0
        /\ LET failed == ~started \/ code # 0
               isExitError == started /\ code # 0
               e == runEpilogue(failed, isExitError, started, code)
           IN  /\ ran' = IF started THEN "exited" ELSE "nostart"
               /\ childExit' = code
               /\ exitCode' = e.code
               /\ tmp' = IF e.exits THEN tmp ELSE "removed"
    /\ pc' = "exit"
    /\ UNCHANGED <<loadVars, args, mod, dlVars>>

(***************************************************************************)
(* the program                                                             *)
(***************************************************************************)
Next ==
    \/ NextLoad
    \/ LoadFailed
    \/ LoadDone
    \/ Usage
    \/ Lookup
    \/ Validate
    \/ DownloadStart
    \/ ProbeFail
    \/ ProbeFound
    \/ Build
    \/ Run

\* the sequences over S of at most n elements
BoundedSeq(S, n) == UNION {[1..k -> S] : k \in 0..n}

SP == <<" ">>

\* the path of an embedded file: the pattern is lists/*.list
ListPath(stem) == ListsDir \o stem \o DotList

\* the state of main when it starts, with the embedded files fs and the
\* command line as
Start(fs, as) ==
    /\ files = fs
    /\ fi = 1
    /\ li = 1
    /\ links = <<>>
    /\ loadErr = ""
    /\ args = as
    /\ mod = <<>>
    /\ pc = "load"
    /\ path = <<>>
    /\ version = <<>>
    /\ tail = <<>>
    /\ probes = 0
    /\ probeOK = {}
    /\ dlErr = NoErr
    /\ dir = <<>>
    /\ tmp = "none"
    /\ ran = "none"
    /\ childExit = 0
    /\ exitCode = 0

\* "_.list" with a comment and the alias x, "a.list" with the alias a/x
GoodFiles ==
    << [path |-> ListPath(<<"_">>),
        lines |-> << <<"#", "c">>,
                     <<"x">> \o SP \o <<"a", ".", "a", "/", "a", "/", "b", "@", "v">>
                         \o SP \o <<"d">> \o SP \o <<"e">> >>],
       [path |-> ListPath(<<"a">>),
        lines |-> << <<"x">> \o SP \o <<"a", ".", "a", "/", "b", "@", "v">> >>] >>

\* "_.list" with the alias x twice
DupFiles ==
    << [path |-> ListPath(<<"_">>),
        lines |-> << <<"x">> \o SP \o <<"a", ".", "a", "@", "v">>,
                     <<"x">> \o SP \o <<"a", ".", "a", "@", "v">> >>] >>

MainSources == {GoodFiles, DupFiles}

Host == <<"a", ".", "a">>
Segs == {<<"a">>, <<"b">>}

RECURSIVE PathsOfDepth(_)
\* the module paths of d segments
PathsOfDepth(d) ==
    IF d = 1 THEN {Host}
    ELSE {p \o <<"/">> \o sg : p \in PathsOfDepth(d - 1), sg \in Segs}

ModPaths == UNION {PathsOfDepth(d) : d \in 1..MaxDepth}

\* the names the user gives: module paths, the aliases x and a/x, and b,
\* which is neither
Names == ModPaths \cup {<<"x">>, <<"a", "/", "x">>, <<"b">>}

\* what the user puts after the name
VersionSuffixes == {<<>>, <<"@">>, <<"@", "w">>, <<"@", "w", "@", "w">>}

MainArgs == {<<>>} \cup {<<n \o sfx>> : n \in Names, sfx \in VersionSuffixes}

\* "_.list" with a comment only: no link is registered
CommentFiles ==
    << [path |-> ListPath(<<"_">>), lines |-> << <<"#", "c">> >>] >>

ModAlphabet == {"a", ".", "/", "@", "-"}

\* every short token, a coordinate or not
ShortArgs == {<<m>> : m \in BoundedSeq(ModAlphabet, MaxModLen)}

\* main starts with lists that register aliases and a token that names a
\* module path or an alias, or with no alias and any short token
Init ==
    \/ \E fs \in MainSources, as \in MainArgs : Start(fs, as)
    \/ \E as \in ShortArgs : Start(CommentFiles, as)

Spec == Init /\ [][Next]_vars

\* main with the lists that register aliases
InitResolve == \E fs \in MainSources, as \in MainArgs : Start(fs, as)

\* Download does not stop in its loop: the program is sequential and each
\* "go mod download" ends.  This is weak fairness of ProbeFail \/ ProbeFound,
\* which is enabled exactly when pc = "probe", with ENABLED written out.
ProbeFairness ==
    []<>(pc # "probe") \/ []<><<ProbeFail \/ ProbeFound>>_vars

SpecResolve == InitResolve /\ [][Next]_vars /\ ProbeFairness

(***************************************************************************)
(* fsToLinks over many lists                                               *)
(***************************************************************************)
\* the lines of the lists: a comment, an empty line, the record x, and the
\* record a/x with a description, which in "_.list" has the key of x in
\* "a.list"
LoadLines ==
    { <<"#", "c">>,
      <<>>,
      <<"x">> \o SP \o <<"a", ".", "a", "@", "v">>,
      <<"a", "/", "x">> \o SP \o <<"a", ".", "a", "@", "w">>
          \o SP \o <<"d">> \o SP \o <<"e">> }

\* the file names of a walk, in the order of the walk
StemSeqs == { << <<"_">> >>, << <<"a">> >>, << <<"_">>, <<"a">> >> }

LoadSources ==
    UNION { { [i \in 1..Len(ss) |-> [path |-> ListPath(ss[i]), lines |-> ls[i]]] :
                ls \in [1..Len(ss) -> BoundedSeq(LoadLines, MaxLines)] } :
            ss \in StemSeqs }

InitLoad == \E fs \in LoadSources : Start(fs, <<>>)

SpecLoad == InitLoad /\ [][NextLoad]_vars

(***************************************************************************)
(* lineToLink over many lines                                              *)
(***************************************************************************)
ShortAlphabet == {"a", "-", "_", "!"}

\* what follows the short name on the line
LineRests ==
    { <<>>,
      SP \o <<"a", ".", "a", "@", "v">>,
      SP \o <<"a", ".", "a">>,
      SP \o <<"a", ".", "a", "@", "v">> \o SP \o <<"d">> }

LineSources ==
    { << [path |-> ListPath(<<"_">>), lines |-> <<sh \o rest>>] >> :
        sh \in BoundedSeq(ShortAlphabet, MaxShortLen), rest \in LineRests }

InitLine == \E fs \in LineSources : Start(fs, <<>>)

SpecLine == InitLine /\ [][NextLoad]_vars

(***************************************************************************)
(* the resolver                                                            *)
(***************************************************************************)
\* the path given to Download
InputPath == Split(mod, "@")[1]

\* the segments of the path given to Download
InputSegs == Split(InputPath, "/")

\* Download has been called and has split mod
Started == pc = "probe" \/ probes > 0

\* Download has returned
Returned == probes > 0 /\ pc # "probe"

\* Download has returned a directory
Resolved == Returned /\ dlErr = NoErr

\* the loop of Download is bounded: each failed probe leaves a path one
\* segment shorter, so that while the loop runs the probes made and the
\* segments left add up to the depth of the input path, and the loop has
\* made fewer probes than the path has segments; when every probe has failed
\* and Download has returned, it has probed depth(path) times and returns
\* the "mod-download" error that wraps the error of the last probe, the one
\* of the first segment
ProbesBounded ==
    /\ pc = "probe" =>
        /\ probes + Depth(path) = Depth(InputPath)
        /\ probes < Depth(InputPath)
    /\ (Returned /\ probeOK \cap Ancestors(InputPath) = {}) =>
        /\ pc = "exit"
        /\ exitCode = 1
        /\ probes = Depth(InputPath)
        /\ dlErr = [msg |-> "mod-download",
                    wraps |-> ProbeErr(InputSegs[1] \o <<"@">> \o version)]

\* C1: when every probe fails, Download ends: it probes once per ancestor
\* of the input path, each one segment shorter than the one before, exactly
\* depth(path) times, and returns the "mod-download" error that wraps the
\* error of the last probe; the loop, once entered, is always left.
C1_AllProbesFail == []ProbesBounded /\ (pc = "probe" ~> pc # "probe")

\* every probe of a path of four segments has failed
C1_Witness ==
    /\ Returned
    /\ probeOK = {}
    /\ Depth(InputPath) = 4
    /\ probes = 4
    /\ dlErr.msg = "mod-download"

\* C2: when Download returns a directory, the root is the longest
\* whole-segment prefix of the input path at which the probe succeeds, the
\* tail is the rest of the segments in their order (none when the probe
\* succeeds at the input path), and the directory is the tail under the
\* directory of the root.
C2_LongestPrefix ==
    Resolved =>
        /\ path \in Ancestors(InputPath) \cap probeOK
        /\ \A q \in Ancestors(InputPath) \cap probeOK : Depth(q) <= Depth(path)
        /\ tail = Join(SubSeq(InputSegs, Depth(path) + 1, Len(InputSegs)), "/")
        /\ path = InputPath => tail = <<>>
        /\ dir = PathJoin(ModInfoDir(path, version), tail)

\* a.a/a/b/a with a probe that succeeds at a.a/a only: root a.a/a, tail b/a
C2_Witness ==
    /\ Resolved
    /\ InputPath = <<"a", ".", "a", "/", "a", "/", "b", "/", "a">>
    /\ probeOK = {<<"a", ".", "a", "/", "a">>}
    /\ path = <<"a", ".", "a", "/", "a">>
    /\ tail = <<"b", "/", "a">>

\* C10: from the first iteration of the loop on, also after the last
\* pathTrim, path.Join(path, tail) is the input path; the root returned is
\* an ancestor of the input path, or the path itself.
C10_TailReconstruction ==
    /\ Started => PathJoin(path, tail) = InputPath
    /\ Resolved => path \in Ancestors(InputPath)

\* the state after the last pathTrim of a path of three segments or more
C10_Witness ==
    /\ Started
    /\ Depth(InputPath) >= 3
    /\ path = <<".">>
    /\ tail = InputPath

(***************************************************************************)
(* the exit of the launcher                                                *)
(***************************************************************************)
\* C3: when the built binary has run to completion, the exit status of the
\* launcher is the exit code of the binary.
C3_ExitCodePropagated ==
    (pc = "exit" /\ ran = "exited") => exitCode = childExit

\* C4: when the launcher exits after Build has created the temporary
\* artifact, the artifact has been removed.
C4_ArtifactRemoved ==
    (pc = "exit" /\ tmp # "none") => tmp = "removed"

(***************************************************************************)
(* coordinates and aliases                                                 *)
(***************************************************************************)
\* the index of the first "@" of s, Len(s) + 1 when there is none
FirstAt(s) == SepPos(s, "@", 1)

\* s up to its first "@"
BeforeAt(s) == SubSeq(s, 1, FirstAt(s) - 1)

\* s after its first "@"
AfterAt(s) == SubSeq(s, FirstAt(s) + 1, Len(s))

\* m is path@version with a path of the module-path grammar and a version
\* that is not empty
WellFormedCoordinate(m) ==
    /\ Cardinality(SepIdx(m, "@")) = 1
    /\ CheckPath(BeforeAt(m))
    /\ AfterAt(m) # <<>>

\* C5: validateMod accepts a coordinate if and only if its path is of the
\* module-path grammar and its version is not empty.
C5_ValidIffWellFormed ==
    pc \in {"download", "exit"} => (pc = "download" <=> WellFormedCoordinate(mod))

\* main has looked os.Args[1] up
LookedUp == pc \notin {"load", "args"} /\ loadErr = "" /\ Len(args) >= 1

\* C6: when the name of the token is a key of the registry, the coordinate
\* looked up is the path of the alias, "@", and the version of the user
\* when the token has one, the version of the alias when it has none.
C6_UserVersionWins ==
    (LookedUp /\ BeforeAt(args[1]) \in DOMAIN links) =>
        LET token == args[1]
            pkg == links[BeforeAt(token)].Pkg
        IN  mod = BeforeAt(pkg) \o <<"@">> \o
                    (IF "@" \in Chars(token) THEN AfterAt(token) ELSE AfterAt(pkg))

\* x@w with x registered as a.a/a/b@v: a.a/a/b@w
C6_Witness ==
    /\ pc = "validate"
    /\ args = << <<"x", "@", "w">> >>
    /\ links[<<"x">>].Pkg = <<"a", ".", "a", "/", "a", "/", "b", "@", "v">>
    /\ mod = <<"a", ".", "a", "/", "a", "/", "b", "@", "w">>

(***************************************************************************)
(* the lines of the lists                                                  *)
(***************************************************************************)
\* line l of file f
LineAt(f, l) == files[f].lines[l]

\* the scanner has gone past line l of file f
Scanned(f, l) == f < fi \/ (f = fi /\ l < li)

\* the scanner stands at line l of file f
At(f, l) == f = fi /\ l = li

IsComment(line) == HasPrefix(line, "#")

\* a record line that lineToLink accepts
IsRecord(line) == lineToLink(line).err = "" /\ lineToLink(line).link # EmptyLink

\* the namespace of file f: its name without "lists/" and ".list"
Namespace(f) ==
    SubSeq(files[f].path, Len(ListsDir) + 1, Len(files[f].path) - Len(DotList))

\* the short name sh in the namespace of file f
Namespaced(f, sh) ==
    IF Namespace(f) = <<"_">> THEN sh ELSE Namespace(f) \o <<"/">> \o sh

\* the key of the record at line l of file f
KeyAt(f, l) == Namespaced(f, Split(LineAt(f, l), " ")[1])

\* the alias of the record at line l of file f
AliasAt(f, l) ==
    LET fields == Split(LineAt(f, l), " ")
    IN  [Short |-> KeyAt(f, l),
         Pkg |-> fields[2],
         Desc |-> Join(SubSeq(fields, 3, Len(fields)), " ")]

\* the records the scanner has gone past
ScannedRecords ==
    {p \in (1..Len(files)) \X (1..(MaxLines + 1)) :
        /\ p[2] <= Len(files[p[1]].lines)
        /\ Scanned(p[1], p[2])
        /\ IsRecord(LineAt(p[1], p[2]))}

\* a short name that starts and ends with an alphanumeric character and has
\* only alphanumerics, "-" and "_" in between
WellFormedShort(sh) ==
    /\ Len(sh) >= 1
    /\ Alnum(sh[1])
    /\ Alnum(sh[Len(sh)])
    /\ \A c \in Chars(sh) : ShortClass(c)

\* C7: a line that is no comment gets past the scanner only with two fields
\* or more, a well-formed short name and a valid coordinate; so the short
\* name of every alias of the registry is well-formed.
C7_MalformedLineRejected ==
    /\ \A f \in 1..Len(files) : \A l \in 1..Len(files[f].lines) :
        (Scanned(f, l) /\ ~IsComment(LineAt(f, l))) =>
            LET fields == Split(LineAt(f, l), " ")
            IN  /\ Len(fields) >= 2
                /\ WellFormedShort(fields[1])
                /\ validateMod(fields[2])
    /\ \A k \in DOMAIN links :
        \E f \in 1..Len(files) : \E sh \in {SubSeq(k, i, Len(k)) : i \in 1..Len(k)} :
            k = Namespaced(f, sh) /\ WellFormedShort(sh)

\* C8: the load fails with "already exists" only at a record whose
\* namespaced short name is that of a record before it; no two records that
\* the scanner has gone past have the same namespaced short name, so the
\* load does not survive a duplicate; and every record gone past is in the
\* registry under its own namespaced short name, so the same short name in
\* two namespaces gives two aliases.
C8_DuplicateAlias ==
    /\ loadErr = "exists" =>
        /\ fi <= Len(files) /\ li <= Len(files[fi].lines)
        /\ IsRecord(LineAt(fi, li))
        /\ \E p \in ScannedRecords : KeyAt(p[1], p[2]) = KeyAt(fi, li)
    /\ \A p, q \in ScannedRecords : p # q => KeyAt(p[1], p[2]) # KeyAt(q[1], q[2])
    /\ \A p \in ScannedRecords :
        /\ KeyAt(p[1], p[2]) \in DOMAIN links
        /\ links[KeyAt(p[1], p[2])] = AliasAt(p[1], p[2])

\* "_.list" and "a.list" both have x, loaded as x and a/x; the second x of
\* "a.list" fails the load
C8_Witness ==
    /\ Len(files) = 2
    /\ Len(files[1].lines) >= 1
    /\ Len(files[2].lines) >= 2
    /\ DOMAIN links = {<<"x">>, <<"a", "/", "x">>}
    /\ Split(LineAt(1, 1), " ")[1] = <<"x">>
    /\ Split(LineAt(2, 1), " ")[1] = <<"x">>
    /\ At(2, 2)
    /\ loadErr = "exists"

====
